---- MODULE Spec2Model ----
(***************************************************************************)
(* Model of src/main.py: the Store calendar policy, the delivery-schedule  *)
(* enumerator, the pickup-window resolver and the result aggregator of     *)
(* LogisticsSystem.                                                        *)
(*                                                                         *)
(* Representation.  A calendar date is its number of days since           *)
(* 2024-06-01 (day 0, a Saturday).  A time of day is its number of minutes *)
(* since 00:00.  A datetime is its number of minutes since 2024-06-01      *)
(* 00:00.  Python's None is the empty tuple <<>>, which is falsy like      *)
(* None.  A dict is a function whose DOMAIN is its key set.                *)
(***************************************************************************)
EXTENDS Integers, Sequences, FiniteSets, TLC

VARIABLES store, stores, delivery_schedules, last

vars == <<store, stores, delivery_schedules, last>>

None == <<>>

(***************************************************************************)
(* datetime / date / time / timedelta arithmetic                           *)
(***************************************************************************)
MinutesPerDay == 24 * 60

\* datetime.date()
DateOf(dt) == dt \div MinutesPerDay

\* datetime.time()
TimeOf(dt) == dt % MinutesPerDay

\* datetime.combine(date, time)
Combine(d, t) == d * MinutesPerDay + t

\* time(hour, 0)
TimeHM(h, m) == h * 60 + m

\* (a - b).days for datetimes a, b: the floor of the difference in days
TimedeltaDays(a, b) == (a - b) \div MinutesPerDay

\* date.weekday(): Monday is 0; day 0 (2024-06-01) is a Saturday
Weekday(d) == (d + 5) % 7

\* calendar.day_name
DayName == <<"Monday", "Tuesday", "Wednesday", "Thursday", "Friday",
             "Saturday", "Sunday">>

\* list(calendar.day_name).index(name)
DayIndex(name) == CHOOSE i \in 0..6 : DayName[i + 1] = name

MonthLen == <<31, 29, 31, 30, 31, 30, 31, 31, 30, 31, 30, 31>>

RECURSIVE MonthDay(_, _)
\* <<month, day of month>> of the date r days after the first of month m (2024)
MonthDay(m, r) ==
    IF r < MonthLen[m] THEN <<m, r + 1>> ELSE MonthDay(m + 1, r - MonthLen[m])

Digit == <<"0", "1", "2", "3", "4", "5", "6", "7", "8", "9">>

\* a number below 100 printed with two digits (%m, %d, %H, %M)
TwoDigits(n) == Digit[(n \div 10) + 1] \o Digit[(n % 10) + 1]

\* the dates the calendar table covers: 2024-06-01 .. 2024-12-31
Days == 0..(30 + 31 + 31 + 30 + 31 + 30 + 31 - 1)

\* date.strftime("%Y-%m-%d")
FormatDate(d) ==
    LET md == MonthDay(6, d)
    IN  "2024-" \o TwoDigits(md[1]) \o "-" \o TwoDigits(md[2])

DateStr == [d \in Days |-> FormatDate(d)]

StrftimeDate(d) == DateStr[d]

HMStr == [t \in 0..(MinutesPerDay - 1) |->
             TwoDigits(t \div 60) \o ":" \o TwoDigits(t % 60)]

\* datetime.strftime("%H:%M")
StrftimeHM(dt) == HMStr[TimeOf(dt)]

(***************************************************************************)
(* class Store                                                             *)
(***************************************************************************)
\* Store.__init__
NewStore(code, working_hours, unloading_time) ==
    [code              |-> code,
     working_hours     |-> working_hours,
     unloading_time    |-> unloading_time,
     special_schedules |-> <<>>,
     closed_dates      |-> {}]

\* dict[key] = value
DictSet(dict, key, value) ==
    [k \in (DOMAIN dict) \cup {key} |-> IF k = key THEN value ELSE dict[k]]

\* dict.get(key)
DictGet(dict, key) == IF key \in DOMAIN dict THEN dict[key] ELSE None

\* Store.is_open
is_open(s, d) == StrftimeDate(d) \notin s.closed_dates

\* get_working_hours with the special-hours lookup done before the closed test
get_working_hours_special_first(s, d) ==
    IF StrftimeDate(d) \in DOMAIN s.special_schedules
    THEN s.special_schedules[StrftimeDate(d)]
    ELSE IF StrftimeDate(d) \in s.closed_dates THEN None
         ELSE DictGet(s.working_hours, DayName[Weekday(d) + 1])

\* Store.get_working_hours
get_working_hours(s, d) ==
    IF ~ is_open(s, d) THEN None
    ELSE IF StrftimeDate(d) \in DOMAIN s.special_schedules
         THEN s.special_schedules[StrftimeDate(d)]
         ELSE DictGet(s.working_hours, DayName[Weekday(d) + 1])

(***************************************************************************)
(* class DeliverySchedule                                                  *)
(***************************************************************************)
\* DeliverySchedule.__init__
NewDeliverySchedule(store_code, day_of_week, frequency, start_date, departure_time, travel_days, arrival_time) ==
    [store_code      |-> store_code,
     day_of_week     |-> day_of_week,
     frequency       |-> frequency,
     start_date      |-> start_date,
     departure_time  |-> departure_time,
     travel_days     |-> travel_days,
     arrival_time    |-> arrival_time,
     day_of_week_num |-> DayIndex(day_of_week)]

(***************************************************************************)
(* class LogisticsSystem                                                   *)
(***************************************************************************)
\* LogisticsSystem(order_processing_time=60)
order_processing_time == 60

\* the scan horizon of get_next_delivery_dates, in days
Horizon == 60

\* the result of a call: the exception it raised ("" when it returned) and
\* the value it returned
Raise(exc, msg) == [exc |-> exc, msg |-> msg, value |-> None]
Return(value)   == [exc |-> "", msg |-> "", value |-> value]

\* ScheduleFires without the test against start_date
ScheduleFiresBeforeStart(schedule, current_date, from_date) ==
    /\ Weekday(DateOf(current_date)) = schedule.day_of_week_num
    /\ (TimedeltaDays(current_date, schedule.start_date) \div 7)
           % schedule.frequency = 0
    /\ ~ (/\ DateOf(current_date) = DateOf(from_date)
          /\ schedule.departure_time < TimeOf(from_date))

\* ScheduleFires without the test of the weeks since start_date against the
\* frequency
ScheduleFiresEveryWeek(schedule, current_date, from_date) ==
    /\ Weekday(DateOf(current_date)) = schedule.day_of_week_num
    /\ current_date >= schedule.start_date
    /\ ~ (/\ DateOf(current_date) = DateOf(from_date)
          /\ schedule.departure_time < TimeOf(from_date))

\* the test of lines 97-101 for one schedule on one scanned day
ScheduleFires(schedule, current_date, from_date) ==
    /\ Weekday(DateOf(current_date)) = schedule.day_of_week_num
    /\ (TimedeltaDays(current_date, schedule.start_date) \div 7)
           % schedule.frequency = 0
    /\ current_date >= schedule.start_date
    /\ ~ (/\ DateOf(current_date) = DateOf(from_date)
          /\ schedule.departure_time < TimeOf(from_date))

\* lines 102-103: the arrival of the departure of current_date
ArrivalOf(schedule, current_date) ==
    Combine(DateOf(current_date + schedule.travel_days * MinutesPerDay),
            schedule.arrival_time)

RECURSIVE ScanSchedules(_, _, _, _, _, _)
\* the for loop of lines 96-106 from the i-th schedule on
ScanSchedules(schedules, i, current_date, from_date, count, delivery_dates) ==
    IF i > Len(schedules) THEN delivery_dates
    ELSE IF ScheduleFires(schedules[i], current_date, from_date)
         THEN LET appended == Append(delivery_dates,
                                     <<schedules[i],
                                       ArrivalOf(schedules[i], current_date)>>)
              IN  IF Len(appended) >= count THEN appended
                  ELSE ScanSchedules(schedules, i + 1, current_date, from_date,
                                     count, appended)
         ELSE ScanSchedules(schedules, i + 1, current_date, from_date, count,
                            delivery_dates)

RECURSIVE ScanDays(_, _, _, _, _)
\* the while loop of lines 95-107
ScanDays(schedules, current_date, from_date, count, delivery_dates) ==
    IF /\ Len(delivery_dates) < count
       /\ TimedeltaDays(current_date, from_date) < Horizon
    THEN ScanDays(schedules, current_date + MinutesPerDay, from_date, count,
                  ScanSchedules(schedules, 1, current_date, from_date, count,
                                delivery_dates))
    ELSE delivery_dates

RECURSIVE InsertByArrival(_, _)
\* x put into the sorted list after every entry whose arrival is not later
InsertByArrival(sorted, x) ==
    IF sorted = <<>> THEN <<x>>
    ELSE IF x[2] < Head(sorted)[2] THEN <<x>> \o sorted
         ELSE <<Head(sorted)>> \o InsertByArrival(Tail(sorted), x)

\* the list left in scan order: no sort
SortedByArrivalScanOrder(seq) == seq

RECURSIVE SortedByArrival(_)
\* sorted(delivery_dates, key=lambda x: x[1]): a stable sort
SortedByArrival(seq) ==
    IF seq = <<>> THEN <<>>
    ELSE InsertByArrival(SortedByArrival(SubSeq(seq, 1, Len(seq) - 1)),
                         seq[Len(seq)])

\* LogisticsSystem.get_next_delivery_dates
get_next_delivery_dates(store_code, from_date, count) ==
    LET schedules == DictGet(delivery_schedules, store_code)
    IN  IF schedules = <<>>
        THEN Raise("NoDeliveryScheduleError",
                   "No delivery schedule found for this store.")
        ELSE Return(SortedByArrival(
                        ScanDays(schedules, from_date, from_date, count, <<>>)))

\* get_pickup_times rolling over only strictly after the closing time
get_pickup_times_after_closing(store_code, delivery_datetime) ==
    IF store_code \notin DOMAIN stores
    THEN Raise("StoreNotFoundError", "Store not found.")
    ELSE
    LET available_time == delivery_datetime + store.unloading_time
        working_hours  == get_working_hours(store, DateOf(available_time))
    IN  IF working_hours = None
        THEN Raise("StoreClosedError", "Store is closed on delivery date.")
        ELSE
        LET opening_time == TimeHM(working_hours[1], 0)
            closing_time == TimeHM(working_hours[2], 0)
        IN  IF TimeOf(available_time) > closing_time
            THEN LET next_day       == DateOf(available_time) + 1
                     next_day_hours == get_working_hours(store, next_day)
                 IN  IF next_day_hours = None
                     THEN Raise("StoreClosedError",
                                "Store is closed on the next day after delivery.")
                     ELSE Return(<<Combine(next_day, TimeHM(next_day_hours[1], 0)),
                                   Combine(next_day, TimeHM(next_day_hours[2], 0))>>)
            ELSE LET start_time ==
                         IF TimeOf(available_time) < opening_time
                         THEN Combine(DateOf(available_time), opening_time)
                         ELSE available_time
                 IN  Return(<<start_time,
                              Combine(DateOf(available_time), closing_time)>>)

\* LogisticsSystem.get_pickup_times
get_pickup_times(store_code, delivery_datetime) ==
    IF store_code \notin DOMAIN stores
    THEN Raise("StoreNotFoundError", "Store not found.")
    ELSE
    LET available_time == delivery_datetime + store.unloading_time
        working_hours  == get_working_hours(store, DateOf(available_time))
    IN  IF working_hours = None
        THEN Raise("StoreClosedError", "Store is closed on delivery date.")
        ELSE
        LET opening_time == TimeHM(working_hours[1], 0)
            closing_time == TimeHM(working_hours[2], 0)
        IN  IF TimeOf(available_time) >= closing_time
            THEN LET next_day       == DateOf(available_time) + 1
                     next_day_hours == get_working_hours(store, next_day)
                 IN  IF next_day_hours = None
                     THEN Raise("StoreClosedError",
                                "Store is closed on the next day after delivery.")
                     ELSE Return(<<Combine(next_day, TimeHM(next_day_hours[1], 0)),
                                   Combine(next_day, TimeHM(next_day_hours[2], 0))>>)
            ELSE LET start_time ==
                         IF TimeOf(available_time) < opening_time
                         THEN Combine(DateOf(available_time), opening_time)
                         ELSE available_time
                 IN  Return(<<start_time,
                              Combine(DateOf(available_time), closing_time)>>)

\* lines 161-172: the entry of the result for one pickup window
DateEntry(start_time, end_time) ==
    LET date_str == StrftimeDate(DateOf(start_time))
    IN  [date       |-> date_str,
         time_range |-> <<StrftimeHM(start_time), StrftimeHM(end_time)>>,
         formatted  |-> date_str \o " from " \o StrftimeHM(start_time)
                                 \o " to " \o StrftimeHM(end_time)]

RECURSIVE CollectDatesNoDedup(_, _, _, _, _, _)
\* CollectDates without the seen_dates test
CollectDatesNoDedup(store_code, delivery_dates, i, days_to_show, result, seen_dates) ==
    IF i > Len(delivery_dates) THEN result
    ELSE
    LET pickup_times == get_pickup_times(store_code, delivery_dates[i][2])
        skip         == CollectDatesNoDedup(store_code, delivery_dates, i + 1,
                                            days_to_show, result, seen_dates)
    IN  IF pickup_times.exc = "StoreClosedError" THEN skip
        ELSE IF pickup_times.value = None THEN skip
        ELSE
        LET entry    == DateEntry(pickup_times.value[1], pickup_times.value[2])
            appended == Append(result, entry)
        IN  IF Len(appended) >= days_to_show THEN appended
            ELSE CollectDatesNoDedup(store_code, delivery_dates, i + 1,
                                     days_to_show, appended,
                                     seen_dates \cup {entry.date})

RECURSIVE CollectDatesStopAtClosed(_, _, _, _, _, _)
\* CollectDates leaving the loop at the first StoreClosedError
CollectDatesStopAtClosed(store_code, delivery_dates, i, days_to_show, result, seen_dates) ==
    IF i > Len(delivery_dates) THEN result
    ELSE
    LET pickup_times == get_pickup_times(store_code, delivery_dates[i][2])
        skip         == CollectDatesStopAtClosed(store_code, delivery_dates,
                                                 i + 1, days_to_show, result,
                                                 seen_dates)
    IN  IF pickup_times.exc = "StoreClosedError" THEN result
        ELSE IF pickup_times.value = None THEN skip
        ELSE
        LET entry == DateEntry(pickup_times.value[1], pickup_times.value[2])
        IN  IF entry.date \in seen_dates THEN skip
            ELSE LET appended == Append(result, entry)
                 IN  IF Len(appended) >= days_to_show THEN appended
                     ELSE CollectDatesStopAtClosed(store_code, delivery_dates,
                                                   i + 1, days_to_show, appended,
                                                   seen_dates \cup {entry.date})

RECURSIVE CollectDates(_, _, _, _, _, _)
\* the for loop of lines 151-175 from the i-th candidate on
CollectDates(store_code, delivery_dates, i, days_to_show, result, seen_dates) ==
    IF i > Len(delivery_dates) THEN result
    ELSE
    LET pickup_times == get_pickup_times(store_code, delivery_dates[i][2])
        skip         == CollectDates(store_code, delivery_dates, i + 1,
                                     days_to_show, result, seen_dates)
    IN  IF pickup_times.exc = "StoreClosedError" THEN skip
        ELSE IF pickup_times.value = None THEN skip
        ELSE
        LET entry == DateEntry(pickup_times.value[1], pickup_times.value[2])
        IN  IF entry.date \in seen_dates THEN skip
            ELSE LET appended == Append(result, entry)
                 IN  IF Len(appended) >= days_to_show THEN appended
                     ELSE CollectDates(store_code, delivery_dates, i + 1,
                                       days_to_show, appended,
                                       seen_dates \cup {entry.date})

\* get_delivery_dates looking for the schedules before the store
get_delivery_dates_schedules_first(store_code, order_date, days_to_show) ==
    LET ready_datetime == order_date + order_processing_time
        delivery_dates == get_next_delivery_dates(store_code, ready_datetime,
                                                  days_to_show * 2)
    IN  IF delivery_dates.exc = "NoDeliveryScheduleError"
        THEN [error |-> delivery_dates.msg]
        ELSE IF store_code \notin DOMAIN stores
        THEN [error |-> "Store not found"]
        ELSE
        LET result == CollectDates(store_code, delivery_dates.value, 1,
                                   days_to_show, <<>>, {})
        IN  IF result = <<>>
            THEN [error |-> "No available dates for pickup in the near future"]
            ELSE [dates |-> result]

\* get_delivery_dates asking the enumerator for days_to_show candidates only
get_delivery_dates_no_over_fetch(store_code, order_date, days_to_show) ==
    IF store_code \notin DOMAIN stores
    THEN [error |-> "Store not found"]
    ELSE
    LET ready_datetime == order_date + order_processing_time
        delivery_dates == get_next_delivery_dates(store_code, ready_datetime,
                                                  days_to_show)
    IN  IF delivery_dates.exc = "NoDeliveryScheduleError"
        THEN [error |-> delivery_dates.msg]
        ELSE
        LET result == CollectDates(store_code, delivery_dates.value, 1,
                                   days_to_show, <<>>, {})
        IN  IF result = <<>>
            THEN [error |-> "No available dates for pickup in the near future"]
            ELSE [dates |-> result]

\* LogisticsSystem.get_delivery_dates
get_delivery_dates(store_code, order_date, days_to_show) ==
    IF store_code \notin DOMAIN stores
    THEN [error |-> "Store not found"]
    ELSE
    LET ready_datetime == order_date + order_processing_time
        delivery_dates == get_next_delivery_dates(store_code, ready_datetime,
                                                  days_to_show * 2)
    IN  IF delivery_dates.exc = "NoDeliveryScheduleError"
        THEN [error |-> delivery_dates.msg]
        ELSE
        LET result == CollectDates(store_code, delivery_dates.value, 1,
                                   days_to_show, <<>>, {})
        IN  IF result = <<>>
            THEN [error |-> "No available dates for pickup in the near future"]
            ELSE [dates |-> result]

(***************************************************************************)
(* The values the calls are made with                                      *)
(***************************************************************************)
\* date(2024, month, day) and datetime(2024, month, day, hour, minute)
Date(month, day) == CHOOSE d \in Days : MonthDay(6, d) = <<month, day>>
DateTime(month, day, hour, minute) == Combine(Date(month, day), TimeHM(hour, minute))

\* the bounds of the model
MaxClosed     == 2
MaxSpecial    == 1
MaxSchedules  == 2
MaxCount      == 3
MaxDaysToShow == 2

StoreCodes == {"STORE001", "STORE002"}

\* the working_hours of the store built at lines 194-206
SeedHours ==
    [n \in {DayName[i] : i \in 1..7} |->
        IF n = "Saturday" THEN <<10, 18>>
        ELSE IF n = "Sunday" THEN <<10, 17>> ELSE <<10, 20>>]

\* a store with no entry for Saturday and Sunday
WeekdayHours == [n \in {DayName[i] : i \in 1..5} |-> <<10, 20>>]

\* Store("STORE001", working_hours, unloading_time)
StoreConfigs ==
    {NewStore("STORE001", SeedHours, 120),
     NewStore("STORE001", WeekdayHours, 120),
     NewStore("STORE001", SeedHours, 900)}

ClosedDateStrs  == {"2024-07-03", "2024-07-10"}
\* the <<date, hours>> add_special_schedule is called with, as at line 208
SpecialSchedules == {<<"2024-07-03", <<12, 16>>>>, <<"2024-07-10", <<8, 10>>>>}

\* start_date is a calendar date held as a datetime at 00:00, as at lines
\* 214 and 223
SchedulePool ==
    {NewDeliverySchedule("STORE001", "Monday", 1, DateTime(6, 1, 0, 0),
                         TimeHM(8, 0), 2, TimeHM(9, 0)),
     NewDeliverySchedule("STORE001", "Thursday", 1, DateTime(8, 29, 0, 0),
                         TimeHM(8, 0), 1, TimeHM(10, 0)),
     NewDeliverySchedule("STORE001", "Tuesday", 2, DateTime(7, 9, 0, 0),
                         TimeHM(6, 0), 0, TimeHM(19, 30)),
     NewDeliverySchedule("STORE001", "Friday", 3, DateTime(6, 1, 0, 0),
                         TimeHM(23, 0), 1, TimeHM(7, 0))}

\* further special hours, for the calendar policy and the resolver alone
MoreSpecialSchedules ==
    SpecialSchedules \cup {<<"2024-07-03", <<8, 10>>>>, <<"2024-07-10", <<12, 16>>>>,
                           <<"2024-07-06", <<9, 13>>>>}

\* further schedules, for the enumerator alone: a second Monday schedule
\* that arrives before the first, and one whose start_date is not on its
\* weekday
MoreSchedules ==
    SchedulePool \cup
    {NewDeliverySchedule("STORE001", "Monday", 1, DateTime(6, 1, 0, 0),
                         TimeHM(9, 0), 1, TimeHM(8, 0)),
     NewDeliverySchedule("STORE001", "Saturday", 2, DateTime(7, 3, 0, 0),
                         TimeHM(12, 0), 3, TimeHM(15, 0))}

QueryDates ==
    {Date(7, 3), Date(7, 4), Date(7, 6), Date(7, 7), Date(7, 10), Date(7, 17)}

FromDates ==
    {DateTime(6, 24, 8, 0), DateTime(6, 24, 8, 1), DateTime(6, 28, 23, 0),
     DateTime(6, 30, 12, 0), DateTime(7, 2, 23, 30)}

OrderDates == {DateTime(6, 24, 7, 0), DateTime(6, 24, 7, 1), DateTime(7, 2, 22, 30)}

ArrivalDates ==
    {DateTime(7, 2, 21, 0), DateTime(7, 3, 9, 0), DateTime(7, 3, 10, 0),
     DateTime(7, 3, 14, 0), DateTime(7, 5, 23, 0), DateTime(7, 6, 7, 0),
     DateTime(7, 9, 18, 0), DateTime(7, 9, 19, 30)}

NoCall == [op |-> "none"]

(***************************************************************************)
(* The state machine.  The program is sequential: a call is made when no    *)
(* result is pending (last = NoCall); a query records its arguments and    *)
(* its result in last, and the caller then takes the result.               *)
(***************************************************************************)
Init ==
    /\ store \in StoreConfigs
    /\ stores = <<>>
    /\ delivery_schedules = <<>>
    /\ last = NoCall

\* Store.add_special_schedule
add_special_schedule(date, hours) ==
    /\ last = NoCall
    /\ Cardinality(DOMAIN store.special_schedules \cup {date}) <= MaxSpecial
    /\ store' = [store EXCEPT
                    !.special_schedules = DictSet(@, date, hours)]
    /\ UNCHANGED <<stores, delivery_schedules, last>>

\* Store.add_closed_date
add_closed_date(date) ==
    /\ last = NoCall
    /\ Cardinality(store.closed_dates \cup {date}) <= MaxClosed
    /\ store' = [store EXCEPT !.closed_dates = @ \cup {date}]
    /\ UNCHANGED <<stores, delivery_schedules, last>>

\* LogisticsSystem.add_store: the registry holds a reference to the store
add_store ==
    /\ last = NoCall
    /\ stores' = DictSet(stores, store.code, "store")
    /\ UNCHANGED <<store, delivery_schedules, last>>

\* LogisticsSystem.add_delivery_schedule
add_delivery_schedule(schedule) ==
    /\ last = NoCall
    /\ Len(DictGet(delivery_schedules, schedule.store_code)) < MaxSchedules
    /\ delivery_schedules' =
           DictSet(delivery_schedules, schedule.store_code,
                   Append(DictGet(delivery_schedules, schedule.store_code),
                          schedule))
    /\ UNCHANGED <<store, stores, last>>

CallGetWorkingHours(date) ==
    /\ last = NoCall
    /\ last' = [op |-> "get_working_hours", date |-> date,
                ret |-> get_working_hours(store, date)]
    /\ UNCHANGED <<store, stores, delivery_schedules>>

CallGetNextDeliveryDates(store_code, from_date, count) ==
    /\ last = NoCall
    /\ last' = [op |-> "get_next_delivery_dates", store_code |-> store_code,
                from_date |-> from_date, count |-> count,
                ret |-> get_next_delivery_dates(store_code, from_date, count)]
    /\ UNCHANGED <<store, stores, delivery_schedules>>

CallGetPickupTimes(store_code, delivery_datetime) ==
    /\ last = NoCall
    /\ last' = [op |-> "get_pickup_times", store_code |-> store_code,
                delivery_datetime |-> delivery_datetime,
                ret |-> get_pickup_times(store_code, delivery_datetime)]
    /\ UNCHANGED <<store, stores, delivery_schedules>>

CallGetDeliveryDates(store_code, order_date, days_to_show) ==
    /\ last = NoCall
    /\ last' = [op |-> "get_delivery_dates", store_code |-> store_code,
                order_date |-> order_date, days_to_show |-> days_to_show,
                ret |-> get_delivery_dates(store_code, order_date, days_to_show)]
    /\ UNCHANGED <<store, stores, delivery_schedules>>

\* the caller takes the result of the call, as at lines 242-246
ReturnResult ==
    /\ last # NoCall
    /\ last' = NoCall
    /\ UNCHANGED <<store, stores, delivery_schedules>>

\* the calendar policy: the store's mutators and get_working_hours
NextCalendar ==
    \/ \E special \in MoreSpecialSchedules :
           add_special_schedule(special[1], special[2])
    \/ \E date \in ClosedDateStrs : add_closed_date(date)
    \/ \E date \in QueryDates : CallGetWorkingHours(date)
    \/ ReturnResult

SpecCalendar == Init /\ [][NextCalendar]_vars

\* the enumerator: the schedules and get_next_delivery_dates
NextEnumerator ==
    \/ \E schedule \in MoreSchedules : add_delivery_schedule(schedule)
    \/ \E store_code \in StoreCodes, from_date \in FromDates, count \in 1..MaxCount :
           CallGetNextDeliveryDates(store_code, from_date, count)
    \/ ReturnResult

SpecEnumerator == Init /\ [][NextEnumerator]_vars

\* the resolver: the store, its registration and get_pickup_times
NextResolver ==
    \/ \E special \in MoreSpecialSchedules :
           add_special_schedule(special[1], special[2])
    \/ \E date \in ClosedDateStrs : add_closed_date(date)
    \/ add_store
    \/ \E store_code \in StoreCodes, delivery_datetime \in ArrivalDates :
           CallGetPickupTimes(store_code, delivery_datetime)
    \/ ReturnResult

SpecResolver == Init /\ [][NextResolver]_vars

\* the aggregator: the whole catalog and get_delivery_dates, called with the
\* store's code before and after the store is registered
Next ==
    \/ \E special \in SpecialSchedules :
           add_special_schedule(special[1], special[2])
    \/ \E date \in ClosedDateStrs : add_closed_date(date)
    \/ add_store
    \/ \E schedule \in SchedulePool : add_delivery_schedule(schedule)
    \/ \E order_date \in OrderDates, days_to_show \in 1..MaxDaysToShow :
           CallGetDeliveryDates(store.code, order_date, days_to_show)
    \/ ReturnResult

Spec == Init /\ [][Next]_vars

(***************************************************************************)
(* Calendar policy                                                         *)
(***************************************************************************)
\* C1: every date whose "%Y-%m-%d" form is in closed_dates has no working
\* hours, whatever special_schedules and working_hours hold for it, and a
\* get_working_hours call on such a date returned None.
C1_ClosedDateNeverOpen ==
    /\ \A d \in Days :
           StrftimeDate(d) \in store.closed_dates
               => get_working_hours(store, d) = None
    /\ (/\ last.op = "get_working_hours"
        /\ StrftimeDate(last.date) \in store.closed_dates) => last.ret = None

\* a call on a closed date that has special hours and regular hours too
C1_Witness ==
    /\ last.op = "get_working_hours"
    /\ StrftimeDate(last.date) \in store.closed_dates
    /\ StrftimeDate(last.date) \in DOMAIN store.special_schedules
    /\ DayName[Weekday(last.date) + 1] \in DOMAIN store.working_hours
    /\ last.ret = None

(***************************************************************************)
(* Delivery schedule enumerator                                            *)
(***************************************************************************)
\* the departure date an entry <<schedule, arrival>> of the result comes from
DepartureDate(entry) == DateOf(entry[2]) - entry[1].travel_days

\* the entries of a returned list
Entries(ret) == {ret.value[i] : i \in 1..Len(ret.value)}

\* C2: every entry of the result of get_next_delivery_dates comes from a
\* departure date d within 60 days from from_date's date, on the schedule's
\* weekday, on or after start_date, a multiple of frequency weeks after
\* start_date, not already departed when d is from_date's date, and arrives
\* on d + travel_days at arrival_time.
C2_EntriesAreMatches ==
    (last.op = "get_next_delivery_dates" /\ last.ret.exc = "") =>
        \A e \in Entries(last.ret) :
            LET schedule == e[1]
                d        == DepartureDate(e)
                first    == DateOf(last.from_date)
                start    == DateOf(schedule.start_date)
            IN  /\ \E i \in 1..Len(delivery_schedules[last.store_code]) :
                       delivery_schedules[last.store_code][i] = schedule
                /\ first <= d /\ d < first + Horizon
                /\ DayName[Weekday(d) + 1] = schedule.day_of_week
                /\ d >= start
                /\ ((d - start) \div 7) % schedule.frequency = 0
                /\ (d = first =>
                       ~ (schedule.departure_time < TimeOf(last.from_date)))
                /\ e[2] = Combine(d + schedule.travel_days, schedule.arrival_time)

\* a result holding the departure of from_date's own day, caught because it
\* leaves exactly at from_date's time, and a later one
C2_Witness ==
    /\ last.op = "get_next_delivery_dates" /\ last.ret.exc = ""
    /\ Len(last.ret.value) >= 2
    /\ \E e \in Entries(last.ret) :
           /\ DepartureDate(e) = DateOf(last.from_date)
           /\ e[1].departure_time = TimeOf(last.from_date)

\* the departure dates of one schedule that the scan from from_date meets
Occurrences(schedule, from_date) ==
    {d \in DateOf(from_date)..(DateOf(from_date) + Horizon - 1) :
        /\ DayName[Weekday(d) + 1] = schedule.day_of_week
        /\ d >= DateOf(schedule.start_date)
        /\ ((d - DateOf(schedule.start_date)) \div 7) % schedule.frequency = 0
        /\ (d = DateOf(from_date) =>
               schedule.departure_time >= TimeOf(from_date))}

\* C3: with a single schedule of frequency f, consecutive entries arrive
\* exactly 7*f days apart, and the result holds the earliest occurrences
\* of the schedule in the scanned range, each once and none skipped, until
\* count entries are collected or the range ends.
C3_SingleScheduleSpacing ==
    (/\ last.op = "get_next_delivery_dates" /\ last.ret.exc = ""
     /\ Len(delivery_schedules[last.store_code]) = 1) =>
        LET schedule == delivery_schedules[last.store_code][1]
            value    == last.ret.value
            occ      == Occurrences(schedule, last.from_date)
            min(a, b) == IF a < b THEN a ELSE b
        IN  /\ \A i \in 1..(Len(value) - 1) :
                   DateOf(value[i + 1][2]) - DateOf(value[i][2])
                       = 7 * schedule.frequency
            /\ Len(value) = min(last.count, Cardinality(occ))
            /\ \A i \in 1..Len(value) :
                   /\ DepartureDate(value[i]) \in occ
                   /\ Cardinality({d \in occ : d < DepartureDate(value[i])})
                          = i - 1

\* a single schedule of frequency above 1 that fired at least twice
C3_Witness ==
    /\ last.op = "get_next_delivery_dates" /\ last.ret.exc = ""
    /\ Len(delivery_schedules[last.store_code]) = 1
    /\ delivery_schedules[last.store_code][1].frequency > 1
    /\ Len(last.ret.value) >= 2

(***************************************************************************)
(* Pickup window resolver                                                  *)
(***************************************************************************)
\* C4: for a registered store, get_pickup_times raises StoreClosedError when
\* the date of available = arrival + unloading has no hours; at or after
\* closing it returns the next day's open-to-close interval or raises
\* StoreClosedError when the next day has no hours; before opening it
\* returns open-to-close of available's date; otherwise available-to-close.
\* A returned window ends at the closing time of the date it starts on and
\* does not start before that date's opening time.
C4_PickupWindowCases ==
    (last.op = "get_pickup_times" /\ last.store_code \in DOMAIN stores) =>
        LET available == last.delivery_datetime + store.unloading_time
            day       == DateOf(available)
            hours     == get_working_hours(store, day)
            next      == get_working_hours(store, day + 1)
            ret       == last.ret
        IN  /\ hours = None => ret.exc = "StoreClosedError"
            /\ (hours # None /\ TimeOf(available) >= hours[2] * 60) =>
                   IF next = None THEN ret.exc = "StoreClosedError"
                   ELSE /\ ret.exc = ""
                        /\ ret.value = <<Combine(day + 1, next[1] * 60),
                                         Combine(day + 1, next[2] * 60)>>
            /\ (/\ hours # None /\ TimeOf(available) < hours[2] * 60
                /\ TimeOf(available) < hours[1] * 60) =>
                   /\ ret.exc = ""
                   /\ ret.value = <<Combine(day, hours[1] * 60),
                                    Combine(day, hours[2] * 60)>>
            /\ (/\ hours # None /\ TimeOf(available) < hours[2] * 60
                /\ TimeOf(available) >= hours[1] * 60) =>
                   /\ ret.exc = ""
                   /\ ret.value = <<available, Combine(day, hours[2] * 60)>>
            /\ ret.exc = "" =>
                   LET window == get_working_hours(store, DateOf(ret.value[1]))
                   IN  /\ window # None
                       /\ ret.value[2] = Combine(DateOf(ret.value[1]),
                                                 window[2] * 60)
                       /\ TimeOf(ret.value[1]) >= window[1] * 60

\* goods available exactly at closing time, rolled over to a next day that
\* has special hours
C4_Witness ==
    /\ last.op = "get_pickup_times" /\ last.store_code \in DOMAIN stores
    /\ last.ret.exc = ""
    /\ LET available == last.delivery_datetime + store.unloading_time
           hours     == get_working_hours(store, DateOf(available))
       IN  /\ hours # None
           /\ TimeOf(available) = hours[2] * 60
           /\ DateOf(last.ret.value[1]) = DateOf(available) + 1
           /\ StrftimeDate(DateOf(available) + 1)
                  \in DOMAIN store.special_schedules

(***************************************************************************)
(* Result aggregator                                                       *)
(***************************************************************************)
\* the date a "%Y-%m-%d" string stands for, and the time of an "%H:%M" one
DateOfStr == [str \in {DateStr[d] : d \in Days} |->
                 CHOOSE d \in Days : DateStr[d] = str]
TimeOfStr == [str \in {HMStr[t] : t \in DOMAIN HMStr} |->
                 CHOOSE t \in DOMAIN HMStr : HMStr[t] = str]
ParseDate(str) == DateOfStr[str]
ParseHM(str)   == TimeOfStr[str]

\* the last call is a get_delivery_dates call that got past the store and
\* schedule lookups
Aggregated ==
    /\ last.op = "get_delivery_dates"
    /\ last.store_code \in DOMAIN stores
    /\ DictGet(delivery_schedules, last.store_code) # <<>>

\* the instant the order of the last get_delivery_dates call is ready
ReadyDatetime == last.order_date + order_processing_time

\* the candidates the last get_delivery_dates call got from the enumerator
Candidates ==
    get_next_delivery_dates(last.store_code, ReadyDatetime,
                            last.days_to_show * 2).value

\* the set of those candidates
CandidateSet == LET cands == Candidates IN {cands[i] : i \in 1..Len(cands)}

\* the candidate resolves to a pickup window
Resolves(c) == get_pickup_times(last.store_code, c[2]).exc = ""

\* the date of the pickup window of a candidate that resolves
PickupDate(c) == DateOf(get_pickup_times(last.store_code, c[2]).value[1])

\* the dates of a returned "dates" list, in order
ReturnedDates(ret) == [i \in 1..Len(ret.dates) |-> ParseDate(ret.dates[i].date)]

NoAvailableDates == [error |-> "No available dates for pickup in the near future"]

\* C5: a returned "dates" list has at most days_to_show entries and no two
\* of them carry the same date.
C5_BoundedAndDistinct ==
    (last.op = "get_delivery_dates" /\ "dates" \in DOMAIN last.ret) =>
        LET dates == last.ret.dates
        IN  /\ Len(dates) <= last.days_to_show
            /\ \A i, j \in 1..Len(dates) : i # j => dates[i].date # dates[j].date

\* two candidates resolved to the same date, the second one was reached and
\* the list was filled up to days_to_show
C5_Witness ==
    /\ Aggregated /\ "dates" \in DOMAIN last.ret
    /\ Len(last.ret.dates) = last.days_to_show
    /\ \E i, j \in 1..Len(Candidates) :
           /\ i < j /\ Resolves(Candidates[i]) /\ Resolves(Candidates[j])
           /\ PickupDate(Candidates[i]) = PickupDate(Candidates[j])
           /\ \E k \in 1..Len(last.ret.dates) :
                  ReturnedDates(last.ret)[k] > PickupDate(Candidates[j])

\* C6: in a returned "dates" list the date, and the instant the window
\* starts, of each entry are strictly later than those of the entry before.
C6_DatesAscending ==
    (last.op = "get_delivery_dates" /\ "dates" \in DOMAIN last.ret) =>
        LET dates    == last.ret.dates
            start(i) == Combine(ParseDate(dates[i].date),
                                ParseHM(dates[i].time_range[1]))
        IN  \A i \in 1..(Len(dates) - 1) :
                /\ ParseDate(dates[i].date) < ParseDate(dates[i + 1].date)
                /\ start(i) < start(i + 1)

\* two schedules whose scan order is not the arrival order, and a list of
\* two dates
C6_Witness ==
    /\ Aggregated /\ "dates" \in DOMAIN last.ret
    /\ Len(last.ret.dates) >= 2
    /\ ScanDays(delivery_schedules[last.store_code], ReadyDatetime,
                ReadyDatetime, last.days_to_show * 2, <<>>) # Candidates

\* C7: a candidate whose resolution raises StoreClosedError adds no entry and
\* does not end the loop: the result is the one the same candidates give
\* with those candidates removed; no entry carries a closed date; and the
\* error returned is never the message of a StoreClosedError.
C7_ClosedCandidatesSkipped ==
    Aggregated =>
        LET kept     == SelectSeq(Candidates, Resolves)
            result   == CollectDates(last.store_code, kept, 1,
                                     last.days_to_show, <<>>, {})
            expected == IF result = <<>> THEN NoAvailableDates
                        ELSE [dates |-> result]
        IN  /\ last.ret = expected
            /\ "dates" \in DOMAIN last.ret =>
                   \A i \in 1..Len(last.ret.dates) :
                       last.ret.dates[i].date \notin store.closed_dates
            /\ "error" \in DOMAIN last.ret =>
                   last.ret.error \notin
                       {"Store is closed on delivery date.",
                        "Store is closed on the next day after delivery."}

\* a candidate closed on its own date, a later one closed on the next day,
\* and a still later one that gave an entry
C7_Witness ==
    /\ Aggregated /\ "dates" \in DOMAIN last.ret
    /\ \E i, j, k \in 1..Len(Candidates) :
           /\ i < k /\ j < k
           /\ get_pickup_times(last.store_code, Candidates[i][2]).msg
                  = "Store is closed on delivery date."
           /\ get_pickup_times(last.store_code, Candidates[j][2]).msg
                  = "Store is closed on the next day after delivery."
           /\ Resolves(Candidates[k])
           /\ \E n \in 1..Len(last.ret.dates) :
                  ReturnedDates(last.ret)[n] = PickupDate(Candidates[k])

\* C8: get_delivery_dates returns "Store not found" iff the store is not
\* registered; otherwise the no-schedule error iff the store has no
\* schedule; otherwise the no-available-dates error iff no candidate was
\* accepted; otherwise a non-empty "dates" list; never both keys.
C8_FourOutcomes ==
    last.op = "get_delivery_dates" =>
        LET ret        == last.ret
            registered == last.store_code \in DOMAIN stores
            scheduled  == DictGet(delivery_schedules, last.store_code) # <<>>
            accepted   == \E c \in CandidateSet : Resolves(c)
        IN  /\ DOMAIN ret \in {{"error"}, {"dates"}}
            /\ ret = [error |-> "Store not found"] <=> ~ registered
            /\ registered =>
                   (ret = [error |-> "No delivery schedule found for this store."]
                        <=> ~ scheduled)
            /\ (registered /\ scheduled) =>
                   /\ ret = NoAvailableDates <=> ~ accepted
                   /\ accepted => ("dates" \in DOMAIN ret /\ Len(ret.dates) >= 1)

\* a call for a code that has schedules but no store
C8_Witness ==
    /\ last.op = "get_delivery_dates"
    /\ last.store_code \notin DOMAIN stores
    /\ DictGet(delivery_schedules, last.store_code) # <<>>
    /\ last.ret = [error |-> "Store not found"]

(***************************************************************************)
(* Truncation to count and the over-fetch                                  *)
(***************************************************************************)
\* every <<schedule, arrival>> of a departure of the store's schedules that
\* fires within the horizon scanned from from_date
HorizonDepartures(store_code, from_date) ==
    LET schedules == DictGet(delivery_schedules, store_code)
    IN  {<<schedules[i], ArrivalOf(schedules[i], from_date + k * MinutesPerDay)>> :
            <<i, k>> \in
                {ik \in (1..Len(schedules)) \X (0..(Horizon - 1)) :
                    ScheduleFires(schedules[ik[1]],
                                  from_date + ik[2] * MinutesPerDay, from_date)}}

\* C9: no departure that fires within the horizon and is left out of the
\* result of get_next_delivery_dates arrives strictly earlier than an entry
\* of the result.
C9_EarliestArrivalsReturned ==
    (last.op = "get_next_delivery_dates" /\ last.ret.exc = "") =>
        \A left \in HorizonDepartures(last.store_code, last.from_date)
                        \ Entries(last.ret) :
            \A e \in Entries(last.ret) : ~ (left[2] < e[2])

RECURSIVE Ascending(_)
\* the numbers of a finite set in ascending order
Ascending(S) ==
    IF S = {} THEN <<>>
    ELSE LET least == CHOOSE x \in S : \A y \in S : x <= y
         IN  <<least>> \o Ascending(S \ {least})

\* the first min(days_to_show, number of dates) of the pickup dates that the
\* resolvable entries of a set of <<schedule, arrival>> pairs give: the
\* "dates" the last get_delivery_dates call is to return, or the error when
\* there is none
FirstPickupDates(pairs) ==
    LET dates == {PickupDate(c) : c \in {c \in pairs : Resolves(c)}}
        n     == IF last.days_to_show < Cardinality(dates)
                 THEN last.days_to_show ELSE Cardinality(dates)
    IN  SubSeq(Ascending(dates), 1, n)

\* the last get_delivery_dates call returned these dates, in this order, or
\* the no-available-dates error when there is none
ReturnedExactly(dates) ==
    IF dates = <<>> THEN last.ret = NoAvailableDates
    ELSE "dates" \in DOMAIN last.ret /\ ReturnedDates(last.ret) = dates

\* C10 as claimed: get_delivery_dates returns the first
\* min(days_to_show, number of distinct resolvable pickup dates) pickup dates
\* of all the departures that fire within the horizon after the ready instant.
C10_OverFetchLosesNothing ==
    Aggregated =>
        ReturnedExactly(FirstPickupDates(
            HorizonDepartures(last.store_code, ReadyDatetime)))

\* C10 as amended: get_delivery_dates returns the first
\* min(days_to_show, number of distinct resolvable pickup dates) pickup dates
\* of the days_to_show * 2 candidates get_next_delivery_dates returned, and
\* the no-available-dates error when none of those candidates resolves.
C10_FirstDatesOfFetchedCandidates ==
    Aggregated =>
        ReturnedExactly(FirstPickupDates(CandidateSet))

\* every fetched candidate is closed, so the call returns the
\* no-available-dates error, while a later departure within the horizon
\* resolves to a pickup date
C10_Witness ==
    /\ Aggregated
    /\ Cardinality(CandidateSet) = last.days_to_show * 2
    /\ last.ret = NoAvailableDates
    /\ \E c \in HorizonDepartures(last.store_code, ReadyDatetime) : Resolves(c)

====
